---- MODULE Spec2Model ----
(***************************************************************************)
(* config-expr: a JSON rule set is decoded into ConfigRules, validated,    *)
(* wrapped into a ConfigEvaluator and evaluated against a parameter map.   *)
(*                                                                         *)
(* A Rust String that the program inspects character by character (a leaf  *)
(* literal, a parameter value) is a sequence of one-character strings; a   *)
(* String that is only compared or tested for emptiness (a field name, an  *)
(* operator name, a result tag) is a TLA+ string.                          *)
(***************************************************************************)
EXTENDS Integers, Sequences, FiniteSets, TLC

VARIABLES json, evaluator, call, memo, threads

vars == <<json, evaluator, call, memo, threads>>

(***************************************************************************)
(* Bounds of the model.                                                    *)
(***************************************************************************)
\* Condition nodes (leaves and and/or nodes) in one document, all rules together.
MaxNodes == 3
\* Characters in a literal or a parameter value of the leaf specification.
MaxStrLen == 2

(***************************************************************************)
(* Result<T, ConfigExprError> and Option<T>.                               *)
(***************************************************************************)
Ok(v) == [ok |-> TRUE, v |-> v]

\* ConfigExprError: the variant (class), its message and the rule index the
\* message carries (NoRule when the message carries none).
NoRule == 0 - 1

Err(class, msg, rule) == [ok |-> FALSE, class |-> class, msg |-> msg, rule |-> rule]

Unit == [unit |-> TRUE]

None == [some |-> FALSE]

Some(v) == [some |-> TRUE, v |-> v]

(***************************************************************************)
(* str::contains, starts_with, ends_with.                                  *)
(***************************************************************************)
\* Mutant: the pattern is searched for the string.
starts_with_reversed(s, pat) ==
    Len(s) <= Len(pat) /\ SubSeq(pat, 1, Len(s)) = s

starts_with(s, pat) == Len(pat) <= Len(s) /\ SubSeq(s, 1, Len(pat)) = pat

ends_with(s, pat) ==
    Len(pat) <= Len(s) /\ SubSeq(s, Len(s) - Len(pat) + 1, Len(s)) = pat

contains(s, pat) ==
    \E i \in 1..(Len(s) + 1) :
        i + Len(pat) - 1 <= Len(s) /\ SubSeq(s, i, i + Len(pat) - 1) = pat

(***************************************************************************)
(* str::parse::<f64>().  Accepted: an optional sign, then "inf",           *)
(* "infinity" or "nan" in any letter case, or decimal digits with at most  *)
(* one point and at least one digit.  A finite value is num / 10^scale.    *)
(* (Exponent forms need the letter e, which no modelled string holds.)     *)
(***************************************************************************)
Digits == {"0", "1", "2", "3", "4", "5", "6", "7", "8", "9"}

DigitVal(c) ==
    CASE c = "0" -> 0 [] c = "1" -> 1 [] c = "2" -> 2 [] c = "3" -> 3
      [] c = "4" -> 4 [] c = "5" -> 5 [] c = "6" -> 6 [] c = "7" -> 7
      [] c = "8" -> 8 [] c = "9" -> 9

to_ascii_lowercase(c) ==
    CASE c = "N" -> "n" [] c = "A" -> "a" [] c = "I" -> "i" [] c = "F" -> "f"
      [] c = "T" -> "t" [] c = "Y" -> "y" [] OTHER -> c

Lowered(s) == [i \in 1..Len(s) |-> to_ascii_lowercase(s[i])]

RECURSIVE Pow10(_)
Pow10(n) == IF n = 0 THEN 1 ELSE 10 * Pow10(n - 1)

RECURSIVE DigitsValue(_)
DigitsValue(s) ==
    IF s = <<>> THEN 0
    ELSE 10 * DigitsValue(SubSeq(s, 1, Len(s) - 1)) + DigitVal(s[Len(s)])

ParseError == [ok |-> FALSE]

parse_f64(s) ==
    LET signed == s # <<>> /\ s[1] \in {"+", "-"}
        neg    == s # <<>> /\ s[1] = "-"
        body   == IF signed THEN Tail(s) ELSE s
        low    == Lowered(body)
        points == {i \in 1..Len(body) : body[i] = "."}
        digs   == SelectSeq(body, LAMBDA c : c # ".")
        scale  == IF points = {} THEN 0
                  ELSE Len(body) - (CHOOSE i \in points : TRUE)
    IN  IF low = <<"n", "a", "n">> THEN [ok |-> TRUE, cls |-> "nan"]
        ELSE IF low \in {<<"i", "n", "f">>,
                         <<"i", "n", "f", "i", "n", "i", "t", "y">>}
        THEN [ok |-> TRUE, cls |-> "inf", neg |-> neg]
        ELSE IF /\ digs # <<>>
                /\ Cardinality(points) <= 1
                /\ \A i \in 1..Len(digs) : digs[i] \in Digits
        THEN [ok    |-> TRUE,
              cls   |-> "fin",
              num   |-> IF neg THEN 0 - DigitsValue(digs) ELSE DigitsValue(digs),
              scale |-> scale]
        ELSE ParseError

\* a < b on f64 (false as soon as one side is NaN).
F64Lt(a, b) ==
    /\ a.cls # "nan" /\ b.cls # "nan"
    /\ CASE a.cls = "inf" /\ b.cls = "inf" -> a.neg /\ ~b.neg
         [] a.cls = "inf" -> a.neg
         [] b.cls = "inf" -> ~b.neg
         [] OTHER -> a.num * Pow10(b.scale) < b.num * Pow10(a.scale)

\* a == b on f64 (false as soon as one side is NaN; -0 equals 0).
F64Eq(a, b) ==
    /\ a.cls # "nan" /\ b.cls # "nan"
    /\ CASE a.cls = "inf" /\ b.cls = "inf" -> a.neg = b.neg
         [] a.cls = "inf" \/ b.cls = "inf" -> FALSE
         [] OTHER -> a.num * Pow10(b.scale) = b.num * Pow10(a.scale)

\* The closures handed to compare_numbers: |a, b| a > b, a < b, a >= b, a <= b.
compare_fn(cmp, a, b) ==
    CASE cmp = ">"  -> F64Lt(b, a)
      [] cmp = "<"  -> F64Lt(a, b)
      [] cmp = ">=" -> F64Lt(b, a) \/ F64Eq(a, b)
      [] cmp = "<=" -> F64Lt(a, b) \/ F64Eq(a, b)

(***************************************************************************)
(* regex::Regex.  The modelled patterns are made of literal characters,    *)
(* "." (any character) and "[", which opens a character class: a class     *)
(* that is never closed by "]" does not compile.  A match is unanchored.   *)
(***************************************************************************)
Regex_new(pattern) ==
    \A i \in 1..Len(pattern) :
        pattern[i] = "[" => \E j \in (i + 2)..Len(pattern) : pattern[j] = "]"

Regex_is_match(pattern, text) ==
    \E i \in 1..(Len(text) + 1) :
        /\ i + Len(pattern) - 1 <= Len(text)
        /\ \A k \in 1..Len(pattern) :
               pattern[k] = "." \/ pattern[k] = text[i + k - 1]

(***************************************************************************)
(* The data model and its serde decoding.  A JSON object is a record whose *)
(* fields are the keys present in the text; a JSON string that the program *)
(* keeps opaque (a "then" or "fallback" payload) is [t |-> "string", ...]  *)
(* and any other payload [t |-> "object", ...].                            *)
(***************************************************************************)
Operators ==
    {"Equals", "Contains", "Prefix", "Suffix", "Regex", "GreaterThan",
     "LessThan", "GreaterThanOrEqual", "LessThanOrEqual"}

JsonError(msg) == Err("JsonError", msg, NoRule)

\* Mutant: a name outside the enumeration is decoded and kept as it is.
decode_operator_lenient(s) ==
    CASE s = "equals"   -> Ok("Equals")
      [] s = "contains" -> Ok("Contains")
      [] s = "prefix"   -> Ok("Prefix")
      [] s = "suffix"   -> Ok("Suffix")
      [] s = "regex"    -> Ok("Regex")
      [] s = "gt"       -> Ok("GreaterThan")
      [] s = "lt"       -> Ok("LessThan")
      [] s = "ge"       -> Ok("GreaterThanOrEqual")
      [] s = "le"       -> Ok("LessThanOrEqual")
      [] OTHER          -> Ok(s)

\* #[serde(rename_all = "lowercase")] with the four renames.
decode_operator(s) ==
    CASE s = "equals"   -> Ok("Equals")
      [] s = "contains" -> Ok("Contains")
      [] s = "prefix"   -> Ok("Prefix")
      [] s = "suffix"   -> Ok("Suffix")
      [] s = "regex"    -> Ok("Regex")
      [] s = "gt"       -> Ok("GreaterThan")
      [] s = "lt"       -> Ok("LessThan")
      [] s = "ge"       -> Ok("GreaterThanOrEqual")
      [] s = "le"       -> Ok("LessThanOrEqual")
      [] OTHER          -> JsonError("unknown variant")

Operator_is_valid(op) == op \in Operators

Simple(field, op, value) ==
    [kind |-> "Simple", field |-> field, op |-> op, value |-> value]

And(children) == [kind |-> "And", and |-> children]

Or(children) == [kind |-> "Or", or |-> children]

RECURSIVE decode_condition(_)

\* Mutant: an object that carries keys of more than one shape is rejected.
decode_condition_strict(j) ==
    LET keys   == DOMAIN j
        shapes == (IF {"field", "op", "value"} \subseteq keys THEN {"simple"} ELSE {})
                  \cup (IF "and" \in keys THEN {"and"} ELSE {})
                  \cup (IF "or" \in keys THEN {"or"} ELSE {})
        kids(js) == [i \in 1..Len(js) |-> decode_condition(js[i])]
        allok(ds) == \A i \in 1..Len(ds) : ds[i].ok
        vals(ds) == [i \in 1..Len(ds) |-> ds[i].v]
    IN  IF Cardinality(shapes) # 1
        THEN JsonError("data did not match any variant of untagged enum Condition")
        ELSE IF "simple" \in shapes
        THEN LET op == decode_operator(j.op)
             IN  IF op.ok THEN Ok(Simple(j.field, op.v, j.value)) ELSE op
        ELSE IF "and" \in shapes
        THEN IF allok(kids(j.and)) THEN Ok(And(vals(kids(j.and))))
             ELSE JsonError("invalid and")
        ELSE IF allok(kids(j.or)) THEN Ok(Or(vals(kids(j.or))))
             ELSE JsonError("invalid or")

\* #[serde(untagged)]: the variants are tried in declaration order against the
\* same object, keys a variant does not name are ignored, and the first variant
\* that decodes wins.
decode_condition(j) ==
    LET keys == DOMAIN j
        kids(js) == [i \in 1..Len(js) |-> decode_condition(js[i])]
        allok(ds) == \A i \in 1..Len(ds) : ds[i].ok
        vals(ds) == [i \in 1..Len(ds) |-> ds[i].v]
        simple == IF {"field", "op", "value"} \subseteq keys
                  THEN LET op == decode_operator(j.op)
                       IN  IF op.ok THEN Ok(Simple(j.field, op.v, j.value)) ELSE op
                  ELSE JsonError("missing field")
        and == IF "and" \in keys
               THEN IF allok(kids(j.and)) THEN Ok(And(vals(kids(j.and))))
                    ELSE JsonError("invalid and")
               ELSE JsonError("missing field")
        or == IF "or" \in keys
              THEN IF allok(kids(j.or)) THEN Ok(Or(vals(kids(j.or))))
                   ELSE JsonError("invalid or")
              ELSE JsonError("missing field")
    IN  IF simple.ok THEN simple
        ELSE IF and.ok THEN and
        ELSE IF or.ok THEN or
        ELSE JsonError("data did not match any variant of untagged enum Condition")

\* RuleResult, untagged: String when the payload is a JSON string, else Object.
decode_result(j) ==
    IF j.t = "string" THEN [kind |-> "String", v |-> j.v]
    ELSE [kind |-> "Object", v |-> j.v]

\* Rule: "if" and "then" are both required.
decode_rule(j) ==
    IF ~({"if", "then"} \subseteq DOMAIN j) THEN JsonError("missing field")
    ELSE LET c == decode_condition(j.if)
         IN  IF c.ok THEN Ok([condition |-> c.v, result |-> decode_result(j.then)])
             ELSE c

\* ConfigRules: "rules" is required, "fallback" is optional.
decode_config_rules(j) ==
    IF "rules" \notin DOMAIN j THEN JsonError("missing field rules")
    ELSE LET rs == [i \in 1..Len(j.rules) |-> decode_rule(j.rules[i])]
             bad == {i \in 1..Len(rs) : ~rs[i].ok}
         IN  IF bad # {} THEN rs[CHOOSE i \in bad : \A k \in bad : i <= k]
             ELSE Ok([rules    |-> [i \in 1..Len(rs) |-> rs[i].v],
                      fallback |-> IF "fallback" \in DOMAIN j
                                   THEN Some(decode_result(j.fallback))
                                   ELSE None])

\* serde_json::from_str::<ConfigRules>
from_str(text) == decode_config_rules(text)

(***************************************************************************)
(* ConfigEvaluator: validation.                                            *)
(***************************************************************************)
ValidationError(msg, rule_index) == Err("ValidationError", msg, rule_index)

InvalidOperator(op) == Err("InvalidOperator", op, NoRule)

RECURSIVE validate_condition(_, _)

RECURSIVE validate_each(_, _)

\* for cond in and { Self::validate_condition(cond, rule_index)?; }
validate_each(conds, rule_index) ==
    IF conds = <<>> THEN Ok(Unit)
    ELSE LET r == validate_condition(Head(conds), rule_index)
         IN  IF r.ok THEN validate_each(Tail(conds), rule_index) ELSE r

\* Mutant: the children of and/or are not validated.
validate_condition_shallow(condition, rule_index) ==
    CASE condition.kind = "Simple" ->
           IF condition.field = ""
           THEN ValidationError("Field name cannot be empty", rule_index)
           ELSE IF condition.op = "Regex" /\ ~Regex_new(condition.value)
           THEN ValidationError("Invalid regex", rule_index)
           ELSE Ok(Unit)
      [] condition.kind = "And" ->
           IF condition.and = <<>>
           THEN ValidationError("AND condition cannot be empty", rule_index)
           ELSE Ok(Unit)
      [] condition.kind = "Or" ->
           IF condition.or = <<>>
           THEN ValidationError("OR condition cannot be empty", rule_index)
           ELSE Ok(Unit)

\* Mutant: a leaf with an empty literal is rejected.
validate_condition_nonempty_value(condition, rule_index) ==
    CASE condition.kind = "Simple" ->
           IF condition.field = ""
           THEN ValidationError("Field name cannot be empty", rule_index)
           ELSE IF condition.value = <<>>
           THEN ValidationError("Value cannot be empty", rule_index)
           ELSE IF condition.op = "Regex" /\ ~Regex_new(condition.value)
           THEN ValidationError("Invalid regex", rule_index)
           ELSE Ok(Unit)
      [] condition.kind = "And" ->
           IF condition.and = <<>>
           THEN ValidationError("AND condition cannot be empty", rule_index)
           ELSE validate_each(condition.and, rule_index)
      [] condition.kind = "Or" ->
           IF condition.or = <<>>
           THEN ValidationError("OR condition cannot be empty", rule_index)
           ELSE validate_each(condition.or, rule_index)

validate_condition(condition, rule_index) ==
    CASE condition.kind = "Simple" ->
           IF condition.field = ""
           THEN ValidationError("Field name cannot be empty", rule_index)
           ELSE IF ~Operator_is_valid(condition.op)
           THEN InvalidOperator(condition.op)
           ELSE IF condition.op = "Regex" /\ ~Regex_new(condition.value)
           THEN ValidationError("Invalid regex", rule_index)
           ELSE Ok(Unit)
      [] condition.kind = "And" ->
           IF condition.and = <<>>
           THEN ValidationError("AND condition cannot be empty", rule_index)
           ELSE validate_each(condition.and, rule_index)
      [] condition.kind = "Or" ->
           IF condition.or = <<>>
           THEN ValidationError("OR condition cannot be empty", rule_index)
           ELSE validate_each(condition.or, rule_index)

RECURSIVE validate_from(_, _)

\* Mutant: every rule is examined and the last failing one is reported.
RECURSIVE validate_from_last(_, _)
validate_from_last(rules, i) ==
    IF i > Len(rules.rules) THEN Ok(Unit)
    ELSE LET later == validate_from_last(rules, i + 1)
         IN  IF later.ok
             THEN validate_condition(rules.rules[i].condition, i - 1)
             ELSE later

\* for (index, rule) in rules.rules.iter().enumerate(), from position i on;
\* the index handed down is 0-based.
validate_from(rules, i) ==
    IF i > Len(rules.rules) THEN Ok(Unit)
    ELSE LET r == validate_condition(rules.rules[i].condition, i - 1)
         IN  IF r.ok THEN validate_from(rules, i + 1) ELSE r

validate_rules(rules) ==
    IF rules.rules = <<>> THEN Ok(Unit) ELSE validate_from(rules, 1)

(***************************************************************************)
(* ConfigEvaluator: evaluation.  evaluate_condition yields the truth value *)
(* together with the leaves it handed to evaluate_simple_condition, in     *)
(* call order.                                                             *)
(***************************************************************************)
\* Mutant: the literal is compared with the field value, operands swapped.
compare_numbers_swapped(field_value, target_value, cmp) ==
    LET field_num  == parse_f64(field_value)
        target_num == parse_f64(target_value)
    IN  IF field_num.ok /\ target_num.ok
        THEN compare_fn(cmp, target_num, field_num)
        ELSE FALSE

compare_numbers(field_value, target_value, cmp) ==
    LET field_num  == parse_f64(field_value)
        target_num == parse_f64(target_value)
    IN  IF field_num.ok /\ target_num.ok
        THEN compare_fn(cmp, field_num, target_num)
        ELSE FALSE

\* Mutant: a missing field is read as the empty string.
evaluate_simple_condition_or_empty(field, op, value, params) ==
    LET field_value == IF field \in DOMAIN params THEN params[field] ELSE <<>>
    IN  CASE op = "Equals"   -> field_value = value
          [] op = "Contains" -> contains(field_value, value)
          [] op = "Prefix"   -> starts_with(field_value, value)
          [] op = "Suffix"   -> ends_with(field_value, value)
          [] op = "Regex"    -> Regex_new(value) /\ Regex_is_match(value, field_value)
          [] op = "GreaterThan" -> compare_numbers(field_value, value, ">")
          [] op = "LessThan"    -> compare_numbers(field_value, value, "<")
          [] op = "GreaterThanOrEqual" ->
               compare_numbers(field_value, value, ">=")
          [] op = "LessThanOrEqual" ->
               compare_numbers(field_value, value, "<=")

evaluate_simple_condition(field, op, value, params) ==
    IF field \notin DOMAIN params THEN FALSE
    ELSE LET field_value == params[field]
         IN  CASE op = "Equals"   -> field_value = value
               [] op = "Contains" -> contains(field_value, value)
               [] op = "Prefix"   -> starts_with(field_value, value)
               [] op = "Suffix"   -> ends_with(field_value, value)
               [] op = "Regex"    -> IF Regex_new(value)
                                     THEN Regex_is_match(value, field_value)
                                     ELSE FALSE
               [] op = "GreaterThan" -> compare_numbers(field_value, value, ">")
               [] op = "LessThan"    -> compare_numbers(field_value, value, "<")
               [] op = "GreaterThanOrEqual" ->
                    compare_numbers(field_value, value, ">=")
               [] op = "LessThanOrEqual" ->
                    compare_numbers(field_value, value, "<=")

RECURSIVE evaluate_condition(_, _)

RECURSIVE iter_all(_, _)

RECURSIVE iter_any(_, _)

\* Mutant: every child is evaluated, also after a false one.
RECURSIVE iter_all_eager(_, _)
iter_all_eager(conds, params) ==
    IF conds = <<>> THEN [value |-> TRUE, visited |-> <<>>]
    ELSE LET h == evaluate_condition(Head(conds), params)
             t == iter_all_eager(Tail(conds), params)
         IN  [value |-> h.value /\ t.value, visited |-> h.visited \o t.visited]

\* and.iter().all(|cond| self.evaluate_condition(cond, params))
iter_all(conds, params) ==
    IF conds = <<>> THEN [value |-> TRUE, visited |-> <<>>]
    ELSE LET h == evaluate_condition(Head(conds), params)
         IN  IF ~h.value THEN [value |-> FALSE, visited |-> h.visited]
             ELSE LET t == iter_all(Tail(conds), params)
                  IN  [value |-> t.value, visited |-> h.visited \o t.visited]

\* or.iter().any(|cond| self.evaluate_condition(cond, params))
iter_any(conds, params) ==
    IF conds = <<>> THEN [value |-> FALSE, visited |-> <<>>]
    ELSE LET h == evaluate_condition(Head(conds), params)
         IN  IF h.value THEN [value |-> TRUE, visited |-> h.visited]
             ELSE LET t == iter_any(Tail(conds), params)
                  IN  [value |-> t.value, visited |-> h.visited \o t.visited]

evaluate_condition(condition, params) ==
    CASE condition.kind = "Simple" ->
           [value   |-> evaluate_simple_condition(condition.field, condition.op,
                                                  condition.value, params),
            visited |-> <<condition>>]
      [] condition.kind = "And" -> iter_all(condition.and, params)
      [] condition.kind = "Or"  -> iter_any(condition.or, params)

\* for rule in &self.rules.rules, from position i on.
RECURSIVE evaluate_from(_, _, _)
evaluate_from(self, i, params) ==
    IF i > Len(self.rules.rules) THEN self.rules.fallback
    ELSE IF evaluate_condition(self.rules.rules[i].condition, params).value
    THEN Some(self.rules.rules[i].result)
    ELSE evaluate_from(self, i + 1, params)

\* Mutant: the last matching rule wins.
RECURSIVE evaluate_last_from(_, _, _)
evaluate_last_from(self, i, params) ==
    IF i < 1 THEN self.rules.fallback
    ELSE IF evaluate_condition(self.rules.rules[i].condition, params).value
    THEN Some(self.rules.rules[i].result)
    ELSE evaluate_last_from(self, i - 1, params)

evaluate_last_match(self, params) ==
    evaluate_last_from(self, Len(self.rules.rules), params)

\* Mutant: the fallback is dropped when no rule matches.
evaluate_ignoring_fallback(self, params) ==
    evaluate_from([rules |-> [rules |-> self.rules.rules, fallback |-> None]],
                  1, params)

\* Mutant: the result of the previous evaluate call is returned again,
\* whatever the parameters.
evaluate_cached(self, params) ==
    IF call.fn = "evaluate" THEN call.ret ELSE evaluate_from(self, 1, params)

evaluate(self, params) == evaluate_from(self, 1, params)

(***************************************************************************)
(* Construction and the convenience entry points.                          *)
(***************************************************************************)
\* Mutant: the rule set is wrapped without being validated.
new_unchecked(rules) == Ok([rules |-> rules])

new(rules) ==
    LET r == validate_rules(rules)
    IN  IF r.ok THEN Ok([rules |-> rules]) ELSE r

from_json(text) ==
    LET rules == from_str(text)
    IN  IF rules.ok THEN new(rules.v) ELSE rules

validate_json(text) ==
    LET rules == from_str(text)
    IN  IF rules.ok THEN validate_rules(rules.v) ELSE rules

\* Mutant: each rule is validated only when the walk reaches it, so a match
\* is returned without the later rules having been validated.
RECURSIVE evaluate_lazily_from(_, _, _)
evaluate_lazily_from(rules, i, params) ==
    IF i > Len(rules.rules) THEN Ok(rules.fallback)
    ELSE LET r == validate_condition(rules.rules[i].condition, i - 1)
         IN  IF ~r.ok THEN r
             ELSE IF evaluate_condition(rules.rules[i].condition, params).value
             THEN Ok(Some(rules.rules[i].result))
             ELSE evaluate_lazily_from(rules, i + 1, params)

evaluate_json_lazily(text, params) ==
    LET rules == from_str(text)
    IN  IF rules.ok THEN evaluate_lazily_from(rules.v, 1, params) ELSE rules

evaluate_json(text, params) ==
    LET made == from_json(text)
    IN  IF made.ok THEN Ok(evaluate(made.v, params)) ELSE made

(***************************************************************************)
(* The inputs.  A document of the main specification holds at most         *)
(* MaxNodes condition nodes; its leaves are two sound leaves, a leaf with  *)
(* an empty field, a leaf with a regex that does not compile and a leaf    *)
(* with an operator name outside the enumeration.                          *)
(***************************************************************************)
JLeaves ==
    {[field |-> "platform", op |-> "equals", value |-> <<"a">>],
     [field |-> "region",   op |-> "gt",     value |-> <<"1">>],
     [field |-> "",         op |-> "equals", value |-> <<"a">>],
     [field |-> "platform", op |-> "regex",  value |-> <<"[">>],
     [field |-> "platform", op |-> "bogus",  value |-> <<"a">>]}

\* JGen[n].trees: the condition objects of exactly n nodes;
\* JGen[n].forests: the sequences of condition objects of n nodes in all.
JGen[n \in Nat] ==
    LET trees == IF n = 0 THEN {}
                 ELSE IF n = 1 THEN JLeaves \cup {[and |-> <<>>], [or |-> <<>>]}
                 ELSE {[and |-> f] : f \in JGen[n - 1].forests}
                      \cup {[or |-> f] : f \in JGen[n - 1].forests}
        treesOf(k) == IF k = n THEN trees ELSE JGen[k].trees
    IN  [trees   |-> trees,
         forests |-> IF n = 0 THEN {<<>>}
                     ELSE UNION {{<<t>> \o f : t \in treesOf(k),
                                               f \in JGen[n - k].forests}
                                 : k \in 1..n}]

\* The i-th rule's payload is the tag i; the fallback payload is an object.
JRules(conds) ==
    [i \in 1..Len(conds) |-> [if |-> conds[i], then |-> [t |-> "string", v |-> i]]]

JFallback == [t |-> "object", v |-> 0]

Docs ==
    LET forests == UNION {JGen[n].forests : n \in 0..MaxNodes}
    IN  {[rules |-> JRules(f)] : f \in forests}
        \cup {[rules |-> JRules(f), fallback |-> JFallback] : f \in forests}
        \cup {[fallback |-> JFallback]}

\* The parameter maps of the main specification: each field absent or bound.
ParamValues(field) ==
    IF field = "platform" THEN {<<"a">>, <<"b">>} ELSE {<<"1">>, <<"2">>}

Contexts ==
    UNION {{p \in [D -> {<<"a">>, <<"b">>, <<"1">>, <<"2">>}] :
                \A k \in D : p[k] \in ParamValues(k)}
           : D \in SUBSET {"platform", "region"}}

\* The leaf specification: one rule, one leaf on "platform", any operator, and
\* literals and values over Chars of at most MaxStrLen characters, with signed
\* and special numbers and an unclosed character class added.
Chars == {"1", ".", "a"}

RECURSIVE SeqsUpTo(_, _)
SeqsUpTo(S, n) ==
    IF n = 0 THEN {<<>>}
    ELSE SeqsUpTo(S, n - 1)
         \cup {Append(s, c) : s \in {t \in SeqsUpTo(S, n - 1) : Len(t) = n - 1},
                              c \in S}

StrPool ==
    SeqsUpTo(Chars, MaxStrLen)
    \cup {<<"-", "1">>, <<"+", "1">>, <<"N", "a", "N">>, <<"i", "n", "f">>, <<"[">>,
          <<"A">>}

JOperatorNames ==
    {"equals", "contains", "prefix", "suffix", "regex", "gt", "lt", "ge", "le"}

LeafDocs ==
    {[rules |-> JRules(<<[field |-> "platform", op |-> o, value |-> v]>>),
      fallback |-> JFallback] : o \in JOperatorNames, v \in StrPool}

LeafContexts ==
    UNION {{p \in [D -> StrPool] : "region" \in D => p["region"] = <<"1">>}
           : D \in SUBSET {"platform", "region"}}

(***************************************************************************)
(* The state machine.  json is the document the caller holds, evaluator    *)
(* the ConfigEvaluator built from it (if any), call the last completed     *)
(* call with what it returned, memo an evaluate call an observer noted,     *)
(* threads the evaluate call each thread sharing the evaluator is in.       *)
(***************************************************************************)
NoEvaluator == [none |-> TRUE]

NoCall == [fn |-> "none"]

NoMemo == [noted |-> FALSE]

Built == evaluator # NoEvaluator

NThreads == 2

Threads == 1..NThreads

Idle == [pc |-> "idle"]

Init ==
    /\ json \in Docs
    /\ evaluator = NoEvaluator
    /\ call = NoCall
    /\ memo = NoMemo
    /\ threads = [t \in Threads |-> Idle]

InitLeaf ==
    /\ json \in LeafDocs
    /\ evaluator = NoEvaluator
    /\ call = NoCall
    /\ memo = NoMemo
    /\ threads = [t \in Threads |-> Idle]

\* validate_json(json)
ValidateJson ==
    /\ call' = [fn |-> "validate_json", ret |-> validate_json(json)]
    /\ UNCHANGED <<json, evaluator, memo, threads>>

\* ConfigEvaluator::from_json(json); the caller keeps the evaluator on Ok.
FromJson ==
    /\ ~Built
    /\ LET r == from_json(json)
       IN  /\ evaluator' = IF r.ok THEN r.v ELSE evaluator
           /\ call' = [fn |-> "from_json", ret |-> r]
    /\ UNCHANGED <<json, memo, threads>>

\* ConfigEvaluator::new(rules) on a ConfigRules the caller decoded itself.
New ==
    /\ ~Built
    /\ from_str(json).ok
    /\ LET r == new(from_str(json).v)
       IN  /\ evaluator' = IF r.ok THEN r.v ELSE evaluator
           /\ call' = [fn |-> "new", ret |-> r]
    /\ UNCHANGED <<json, memo, threads>>

\* Mutant: the result of the matching rule is moved out of the rule set, the
\* rule with it, instead of being cloned.
Evaluate_consuming(P) ==
    /\ Built
    /\ \E params \in P :
           LET rules == evaluator.rules.rules
               hits  == {i \in 1..Len(rules) :
                            evaluate_condition(rules[i].condition, params).value}
               first == CHOOSE i \in hits : \A j \in hits : i <= j
           IN  /\ call' = [fn |-> "evaluate", params |-> params,
                           ret |-> evaluate(evaluator, params)]
               /\ evaluator' =
                      IF hits = {} THEN evaluator
                      ELSE [rules |-> [evaluator.rules EXCEPT !.rules =
                               SubSeq(rules, 1, first - 1)
                               \o SubSeq(rules, first + 1, Len(rules))]]
    /\ UNCHANGED <<json, memo, threads>>

\* evaluator.evaluate(&params)
Evaluate(P) ==
    /\ Built
    /\ \E params \in P :
           call' = [fn |-> "evaluate", params |-> params,
                    ret |-> evaluate(evaluator, params)]
    /\ UNCHANGED <<json, evaluator, memo, threads>>

\* The observer notes the call just made, to compare later calls with it.
Note ==
    /\ call.fn = "evaluate"
    /\ memo' = [noted |-> TRUE, params |-> call.params, ret |-> call.ret]
    /\ UNCHANGED <<json, evaluator, call, threads>>

Next == ValidateJson \/ FromJson \/ New \/ Evaluate(Contexts) \/ Note

Spec == Init /\ [][Next]_vars

NextLeaf == FromJson \/ Evaluate(LeafContexts)

SpecLeaf == InitLeaf /\ [][NextLeaf]_vars

\* evaluate_json(json, &params): the evaluator it builds is dropped on return.
EvaluateJson(P) ==
    /\ \E params \in P :
           call' = [fn |-> "evaluate_json", params |-> params,
                    ret |-> evaluate_json(json, params)]
    /\ UNCHANGED <<json, evaluator, memo, threads>>

\* The decoding specification: one rule whose condition object carries any
\* mix of the keys of the three shapes, or of none: the leaf keys (all
\* three with a known or an unknown operator, or "field" alone), "and" and
\* "or" (each with no child, a sound leaf or a leaf with an unknown operator).
NoKeys == [k \in {} |-> k]

SimpleKeys ==
    {NoKeys,
     [field |-> "platform", op |-> "equals", value |-> <<"a">>],
     [field |-> "platform", op |-> "bogus", value |-> <<"a">>],
     [field |-> "platform"]}

ChildLists ==
    {<<>>,
     <<[field |-> "region", op |-> "gt", value |-> <<"1">>]>>,
     <<[field |-> "region", op |-> "bogus", value |-> <<"1">>]>>}

AndKeys == {NoKeys} \cup {[and |-> c] : c \in ChildLists}

OrKeys == {NoKeys} \cup {[or |-> c] : c \in ChildLists}

ShapeDocs ==
    {[rules |-> JRules(<<s @@ a @@ o>>), fallback |-> JFallback] :
        s \in SimpleKeys, a \in AndKeys, o \in OrKeys}

InitDecode ==
    /\ json \in ShapeDocs
    /\ evaluator = NoEvaluator
    /\ call = NoCall
    /\ memo = NoMemo
    /\ threads = [t \in Threads |-> Idle]

\* serde_json::from_str::<ConfigRules>(json), as from_json and validate_json
\* call it first.
FromStr ==
    /\ call' = [fn |-> "from_str", ret |-> from_str(json)]
    /\ UNCHANGED <<json, evaluator, memo, threads>>

NextDecode == FromStr \/ FromJson \/ Evaluate(Contexts)

SpecDecode == InitDecode /\ [][NextDecode]_vars

\* The concurrent specification: the threads share one evaluator by
\* reference, and each runs evaluate one rule at a time, interleaved with the
\* others.  A thread's position in the rule loop and its context are its own.
ConcConditions ==
    LET platform == [field |-> "platform", op |-> "equals", value |-> <<"a">>]
        region   == [field |-> "region", op |-> "gt", value |-> <<"1">>]
    IN  {platform, region,
         [and |-> <<platform, region>>], [or |-> <<platform, region>>]}

ConcDocs ==
    LET lists == {<<>>} \cup {<<c>> : c \in ConcConditions}
                 \cup {<<c, d>> : c \in ConcConditions, d \in ConcConditions}
    IN  {[rules |-> JRules(l), fallback |-> JFallback] : l \in lists}
        \cup {[rules |-> JRules(l)] : l \in lists}

ConcContexts ==
    {NoKeys, [platform |-> <<"a">>], [region |-> <<"2">>]}

InitConc ==
    /\ json \in ConcDocs
    /\ evaluator = NoEvaluator
    /\ call = NoCall
    /\ memo = NoMemo
    /\ threads = [t \in Threads |-> Idle]

\* Thread t calls evaluator.evaluate(&params).
Begin(t) ==
    /\ Built
    /\ threads[t].pc \in {"idle", "done"}
    /\ \E params \in ConcContexts :
           threads' = [threads EXCEPT
                          ![t] = [pc |-> "running", params |-> params, i |-> 1]]
    /\ UNCHANGED <<json, evaluator, call, memo>>

\* Mutant: a thread follows the loop position of thread 1 while that runs.
rule_cursor_shared(ts, t) ==
    IF ts[1].pc = "running" THEN ts[1].i ELSE ts[t].i

\* The position of thread t in its own "for rule in &self.rules".
rule_cursor(ts, t) == ts[t].i

\* Thread t takes one turn of the loop: it returns the result of the rule at
\* its position if the condition holds, moves on if not, and returns the
\* fallback past the last rule.
Step(t) ==
    /\ threads[t].pc = "running"
    /\ LET i      == rule_cursor(threads, t)
           params == threads[t].params
           rules  == evaluator.rules.rules
           done(r) == [pc |-> "done", params |-> params, ret |-> r]
       IN  threads' = [threads EXCEPT ![t] =
               IF i > Len(rules) THEN done(evaluator.rules.fallback)
               ELSE IF evaluate_condition(rules[i].condition, params).value
               THEN done(Some(rules[i].result))
               ELSE [pc |-> "running", params |-> params, i |-> i + 1]]
    /\ UNCHANGED <<json, evaluator, call, memo>>

NextConc == FromJson \/ (\E t \in Threads : Begin(t)) \/ (\E t \in Threads : Step(t))

SpecConc == InitConc /\ [][NextConc]_vars

\* The shadowing specification: a first rule that is one leaf on "platform",
\* of any operator and literal, before a second rule that holds whenever
\* "region" is "1".
ShadowDocs ==
    {[rules |-> JRules(<<[field |-> "platform", op |-> o, value |-> v],
                         [field |-> "region", op |-> "equals", value |-> <<"1">>]>>),
      fallback |-> JFallback] : o \in JOperatorNames, v \in StrPool}

InitShadow ==
    /\ json \in ShadowDocs
    /\ evaluator = NoEvaluator
    /\ call = NoCall
    /\ memo = NoMemo
    /\ threads = [t \in Threads |-> Idle]

SpecShadow == InitShadow /\ [][NextLeaf]_vars

\* The convenience entry points, with an evaluator built beside them.
NextJson == ValidateJson \/ FromJson \/ EvaluateJson(Contexts)

SpecJson == Init /\ [][NextJson]_vars

(***************************************************************************)
(* What the claims speak of, stated without the evaluator's own loops.     *)
(***************************************************************************)
Children(c) ==
    IF c.kind = "And" THEN c.and ELSE IF c.kind = "Or" THEN c.or ELSE <<>>

\* Every condition node of the tree c, c included.
RECURSIVE Nodes(_)
Nodes(c) ==
    {c} \cup UNION {Nodes(Children(c)[i]) : i \in 1..Len(Children(c))}

\* The truth of a condition: a leaf is what the leaf comparison says, a
\* conjunction holds iff all children hold, a disjunction iff one does.
RECURSIVE Holds(_, _)
Holds(c, params) ==
    CASE c.kind = "Simple" ->
           evaluate_simple_condition(c.field, c.op, c.value, params)
      [] c.kind = "And" -> \A i \in 1..Len(c.and) : Holds(c.and[i], params)
      [] c.kind = "Or"  -> \E i \in 1..Len(c.or) : Holds(c.or[i], params)

\* The rules of the evaluator and the indices of those that match params.
Rules == evaluator.rules.rules

Matching(params) == {i \in 1..Len(Rules) : Holds(Rules[i].condition, params)}

Evaluated == Built /\ call.fn = "evaluate"

\* C1 (first match wins): after every evaluate call where some rule's
\* condition is true of the parameters, the call returned the result of the
\* lowest-indexed such rule, whatever later rules match as well.
C1_FirstMatchWins ==
    Evaluated =>
        \A i \in Matching(call.params) :
            (\A k \in Matching(call.params) : i <= k)
                => call.ret = Some(Rules[i].result)

\* Two rules match, the first of them is not rule 1, and it won.
C1_Witness ==
    /\ Evaluated
    /\ \E i, j \in Matching(call.params) :
           /\ 1 < i /\ i < j
           /\ 1 \notin Matching(call.params)
           /\ call.ret = Some(Rules[i].result)

\* C2 (fallback coverage): after every evaluate call where no rule matches,
\* the call returned exactly the configured fallback (none when there is no
\* fallback), and where some rule matches it returned the result of a
\* matching rule, not the fallback.
C2_FallbackCoverage ==
    Evaluated =>
        IF Matching(call.params) = {}
        THEN /\ call.ret = evaluator.rules.fallback
             /\ "fallback" \notin DOMAIN json => call.ret = None
             /\ "fallback" \in DOMAIN json
                    => call.ret = Some(decode_result(json.fallback))
        ELSE /\ call.ret \in {Some(Rules[i].result) : i \in Matching(call.params)}
             /\ call.ret # Some(decode_result(JFallback))

\* Two rules, neither matches, and the configured fallback came back.
C2_Witness ==
    /\ Evaluated
    /\ Len(Rules) = 2
    /\ Matching(call.params) = {}
    /\ call.params # <<>>
    /\ "fallback" \in DOMAIN json
    /\ call.ret = Some(decode_result(JFallback))

\* C3 (empty rule list rejected): validate_json on a well-formed document
\* whose "rules" array is empty returns an error whose message contains
\* "Rules cannot be empty".
C3_EmptyRulesRejected ==
    (/\ call.fn = "validate_json"
     /\ "rules" \in DOMAIN json
     /\ json.rules = <<>>)
        => (~call.ret.ok /\ call.ret.msg = "Rules cannot be empty")

\* The structural defects of one condition node, by the message naming them.
NodeDefects(c) ==
    (IF c.kind = "Simple" /\ c.field = ""
     THEN {"Field name cannot be empty"} ELSE {})
    \cup (IF c.kind = "Simple" /\ c.op = "Regex" /\ ~Regex_new(c.value)
          THEN {"Invalid regex"} ELSE {})
    \cup (IF c.kind = "And" /\ c.and = <<>>
          THEN {"AND condition cannot be empty"} ELSE {})
    \cup (IF c.kind = "Or" /\ c.or = <<>>
          THEN {"OR condition cannot be empty"} ELSE {})

\* The defects of a condition tree, at whatever depth.
Defects(c) == UNION {NodeDefects(n) : n \in Nodes(c)}

\* The decoded document (where it decodes) and the defects of its i-th rule.
Decoded == from_str(json).v

RuleDefects(i) == Defects(Decoded.rules[i].condition)

Validated == call.fn \in {"validate_json", "from_json", "new"} /\ from_str(json).ok

JChildren(j) ==
    (IF "and" \in DOMAIN j THEN j.and ELSE <<>>)
    \o (IF "or" \in DOMAIN j THEN j.or ELSE <<>>)

RECURSIVE JNodes(_)
JNodes(j) == {j} \cup UNION {JNodes(JChildren(j)[i]) : i \in 1..Len(JChildren(j))}

\* The rules (1-based) holding a leaf object whose "op" is no operator name.
UnknownOpRules ==
    IF "rules" \notin DOMAIN json THEN {}
    ELSE {i \in 1..Len(json.rules) :
            \E n \in JNodes(json.rules[i].if) :
                /\ DOMAIN n = {"field", "op", "value"}
                /\ n.op \notin JOperatorNames}

\* C5 as claimed (unknown operator is a validation error): validate_json on a
\* well-formed document with a leaf whose "op" is not an operator name returns
\* an error of the Validation class that identifies the offending rule.
C5_UnknownOperatorIsValidationError ==
    (call.fn = "validate_json" /\ UnknownOpRules # {})
        => /\ ~call.ret.ok
           /\ call.ret.class = "ValidationError"
           /\ call.ret.rule + 1 \in UnknownOpRules

\* C5 as amended (unknown operator is a decode error): validate_json and
\* from_json on such a document return an error of the JsonError (decode)
\* class, which carries no rule index; no evaluator is built.
C5_UnknownOperatorIsDecodeError ==
    (call.fn \in {"validate_json", "from_json"} /\ UnknownOpRules # {})
        => /\ ~call.ret.ok
           /\ call.ret.class = "JsonError"
           /\ call.ret.rule = NoRule
           /\ ~Built

\* The unknown operator sits in the second rule, below an and; the first
\* rule is sound.
C5_Witness ==
    /\ call.fn = "validate_json"
    /\ UnknownOpRules = {2}
    /\ "and" \in DOMAIN json.rules[2].if
    /\ decode_rule(json.rules[1]).ok
    /\ ~call.ret.ok
    /\ call.ret.class = "JsonError"

\* The single leaf of a document of the leaf specification, and whether the
\* one rule it is the condition of was returned by the last evaluate call.
Leaf == Rules[1].condition

LeafMatched == call.ret = Some(Rules[1].result)

LeafFellThrough == call.ret = evaluator.rules.fallback

\* C6 (missing field implies leaf false): after every evaluate call whose
\* parameters lack the leaf's field, whatever the operator and the literal,
\* the leaf evaluated false and the rule did not match: the call returned
\* the fallback, as an Option and not as an error.
C6_MissingFieldLeafFalse ==
    (Evaluated /\ Leaf.field \notin DOMAIN call.params)
        => /\ ~evaluate_condition(Leaf, call.params).value
           /\ LeafFellThrough
           /\ ~LeafMatched

\* The field is missing from a non-empty parameter map, under an operator
\* that is true of the empty string, and the rule did not match.
C6_Witness ==
    /\ Evaluated
    /\ Leaf.field \notin DOMAIN call.params
    /\ call.params # <<>>
    /\ Leaf.op = "Contains"
    /\ Leaf.value = <<>>
    /\ LeafFellThrough

NumericOperators ==
    {"GreaterThan", "LessThan", "GreaterThanOrEqual", "LessThanOrEqual"}

\* The comparison an operator stands for, on two parsed numbers.
NumericComparison(op, left, right) ==
    CASE op = "GreaterThan"        -> F64Lt(right, left)
      [] op = "LessThan"           -> F64Lt(left, right)
      [] op = "GreaterThanOrEqual" ->
           left.cls # "nan" /\ right.cls # "nan" /\ ~F64Lt(left, right)
      [] op = "LessThanOrEqual" ->
           left.cls # "nan" /\ right.cls # "nan" /\ ~F64Lt(right, left)

\* C7 (numeric comparison never faults): after every evaluate call on a
\* gt/lt/ge/le leaf whose field is present, if the field value or the
\* literal does not parse as a number the rule did not match and the call
\* returned the fallback; if both parse the rule matched iff the comparison
\* holds of the two numbers, field value on the left, literal on the right.
C7_NumericComparison ==
    (Evaluated /\ Leaf.op \in NumericOperators
               /\ Leaf.field \in DOMAIN call.params)
        => LET left  == parse_f64(call.params[Leaf.field])
               right == parse_f64(Leaf.value)
           IN  IF left.ok /\ right.ok
               THEN /\ LeafMatched <=> NumericComparison(Leaf.op, left, right)
                    /\ ~LeafMatched => LeafFellThrough
               ELSE LeafFellThrough /\ ~LeafMatched

\* The field value is no number, the literal is, and the fallback came back.
C7_Witness ==
    /\ Evaluated
    /\ Leaf.op = "GreaterThan"
    /\ Leaf.field \in DOMAIN call.params
    /\ ~parse_f64(call.params[Leaf.field]).ok
    /\ parse_f64(Leaf.value).ok
    /\ LeafFellThrough

\* The leaves a walk of c must hand to the leaf comparison, in order: a leaf
\* itself; for and, the children in document order up to and including the
\* first false one; for or, up to and including the first true one.
RECURSIVE ExpectedVisited(_, _)
ExpectedVisited(c, params) ==
    IF c.kind = "Simple" THEN <<c>>
    ELSE LET kids   == Children(c)
             stops  == {i \in 1..Len(kids) :
                          Holds(kids[i], params) = (c.kind = "Or")}
             last   == IF stops = {} THEN Len(kids)
                       ELSE CHOOSE i \in stops : \A k \in stops : i <= k
             Concat[i \in 0..last] ==
                 IF i = 0 THEN <<>>
                 ELSE Concat[i - 1] \o ExpectedVisited(kids[i], params)
         IN  Concat[last]

\* Every condition node of the evaluator's rules.
RuleNodes == UNION {Nodes(Rules[i].condition) : i \in 1..Len(Rules)}

\* C8 (and/or semantics with short-circuit): for the parameters of every
\* evaluate call and every condition node of the rule set, at any depth, the
\* walk's value is: and iff every child is true, or iff some child is true;
\* and the walk visits the children in document order, stopping an and at
\* its first false child and an or at its first true child.
C8_AndOrShortCircuit ==
    Evaluated =>
        \A n \in RuleNodes :
            LET walk == evaluate_condition(n, call.params)
            IN  /\ walk.value = Holds(n, call.params)
                /\ walk.visited = ExpectedVisited(n, call.params)

\* An and whose first child is false and whose second child is true: the
\* walk stopped after the first child, and the and is false.
C8_Witness ==
    /\ Evaluated
    /\ \E n \in RuleNodes :
           /\ n.kind = "And"
           /\ Len(n.and) = 2
           /\ ~Holds(n.and[1], call.params)
           /\ Holds(n.and[2], call.params)
           /\ ~evaluate_condition(n, call.params).value
           /\ evaluate_condition(n, call.params).visited = <<n.and[1]>>

WellFormed(rules) ==
    \A i \in 1..Len(rules.rules) :
        \A n \in Nodes(rules.rules[i].condition) :
            /\ n.kind = "And" => n.and # <<>>
            /\ n.kind = "Or" => n.or # <<>>
            /\ n.kind = "Simple" => n.field # ""
            /\ (n.kind = "Simple" /\ n.op = "Regex") => Regex_new(n.value)

\* C10 (validation before use): an evaluator exists only for a well-formed
\* rule set; a failed new or from_json leaves no evaluator; and every
\* evaluate call ran on a well-formed rule set.
C10_ValidationBeforeUse ==
    /\ Built => WellFormed(evaluator.rules)
    /\ (call.fn \in {"new", "from_json"} /\ ~call.ret.ok) => ~Built
    /\ (call.fn \in {"new", "from_json"} /\ from_str(json).ok
            /\ ~WellFormed(Decoded)) => ~call.ret.ok
    /\ call.fn = "evaluate" => (Built /\ WellFormed(evaluator.rules))

\* new was refused for a rule set with a defect below the top node.
C10_Witness ==
    /\ call.fn = "new"
    /\ ~call.ret.ok
    /\ ~Built
    /\ \E i \in 1..Len(Decoded.rules) :
           /\ NodeDefects(Decoded.rules[i].condition) = {}
           /\ Defects(Decoded.rules[i].condition) # {}

\* C11 (no partial acceptance in evaluate_json): after every evaluate_json
\* call, the call returned an error exactly when validate_json returns an
\* error on the same document, and then the same error, also when a rule
\* before the defective one matches the parameters; otherwise it returned
\* what evaluate returns on an evaluator built from the document.
C11_NoPartialAcceptance ==
    call.fn = "evaluate_json" =>
        /\ call.ret.ok <=> validate_json(json).ok
        /\ ~call.ret.ok => call.ret = validate_json(json)
        /\ call.ret.ok =>
               /\ from_json(json).ok
               /\ call.ret.v = evaluate(from_json(json).v, call.params)
               /\ Built => call.ret.v = evaluate(evaluator, call.params)

\* The first rule is sound and matches, the second rule has a defect, and
\* evaluate_json returned the defect's error.
C11_Witness ==
    /\ call.fn = "evaluate_json"
    /\ from_str(json).ok
    /\ Len(Decoded.rules) = 2
    /\ RuleDefects(1) = {}
    /\ Holds(Decoded.rules[1].condition, call.params)
    /\ RuleDefects(2) # {}
    /\ ~call.ret.ok
    /\ call.ret.class = "ValidationError"
    /\ call.ret.rule = 1

\* The condition object of the one rule of a decoding document, what its keys
\* offer to each variant, and whether the variant's content decodes.
Shaped == json.rules[1].if

OffersSimple == {"field", "op", "value"} \subseteq DOMAIN Shaped

OffersAnd == "and" \in DOMAIN Shaped

OffersOr == "or" \in DOMAIN Shaped

ShapesOffered ==
    (IF OffersSimple THEN {"Simple"} ELSE {})
    \cup (IF OffersAnd THEN {"And"} ELSE {})
    \cup (IF OffersOr THEN {"Or"} ELSE {})

LeavesDecode(js) == \A i \in 1..Len(js) : js[i].op \in JOperatorNames

SimpleDecodes == OffersSimple /\ Shaped.op \in JOperatorNames

AndDecodes == OffersAnd /\ LeavesDecode(Shaped.and)

OrDecodes == OffersOr /\ LeavesDecode(Shaped.or)

\* C12 as claimed (ambiguous and shapeless condition objects are rejected):
\* a decoded condition is Simple only from field+op+value, And only from
\* "and", Or only from "or", and an object with keys of more than one shape,
\* or of none, is rejected.
C12_AmbiguousAndShapelessRejected ==
    call.fn = "from_str" =>
        /\ call.ret.ok =>
               call.ret.v.rules[1].condition.kind \in ShapesOffered
        /\ Cardinality(ShapesOffered) # 1 => ~call.ret.ok

\* C12 as amended (first shape that decodes wins): a decoded condition is
\* Simple only from field+op+value, And only from "and", Or only from "or";
\* an object with the keys of no shape is rejected with a decode error; an
\* object with keys of more than one shape is decoded as the first of
\* Simple, And, Or whose keys it carries and whose content decodes, the other
\* keys being ignored, and is rejected only when none of them decodes.
C12_FirstShapeWins ==
    call.fn = "from_str" =>
        /\ call.ret.ok <=> (SimpleDecodes \/ AndDecodes \/ OrDecodes)
        /\ ~call.ret.ok => call.ret.class = "JsonError"
        /\ ShapesOffered = {} => ~call.ret.ok
        /\ call.ret.ok =>
               LET c == call.ret.v.rules[1].condition
               IN  /\ c.kind \in ShapesOffered
                   /\ c.kind = (IF SimpleDecodes THEN "Simple"
                                ELSE IF AndDecodes THEN "And" ELSE "Or")
                   /\ c.kind = "Simple" =>
                          c.field = Shaped.field /\ c.value = Shaped.value
                   /\ c.kind = "And" => Len(c.and) = Len(Shaped.and)
                   /\ c.kind = "Or" => Len(c.or) = Len(Shaped.or)

\* The object carries the keys of all three shapes, and was decoded as Simple.
C12_Witness ==
    /\ call.fn = "from_str"
    /\ ShapesOffered = {"Simple", "And", "Or"}
    /\ call.ret.ok
    /\ call.ret.v.rules[1].condition.kind = "Simple"

\* C13 (concurrent evaluation needs no locking): under every interleaving of
\* the threads' evaluate calls on one evaluator, each call that has returned
\* returned what evaluate returns for its context when run alone, a call in
\* progress has passed only rules that do not hold for its own context, and
\* the shared rule set is the one the evaluator was constructed with.
C13_ConcurrentEvaluation ==
    Built =>
        /\ evaluator = from_json(json).v
        /\ \A t \in Threads :
               /\ threads[t].pc = "done" =>
                      threads[t].ret = evaluate(evaluator, threads[t].params)
               /\ threads[t].pc = "running" =>
                      /\ threads[t].i \in 1..(Len(Rules) + 1)
                      /\ \A k \in 1..(threads[t].i - 1) :
                             ~Holds(Rules[k].condition, threads[t].params)

\* Thread 1 has returned the second rule's result while thread 2, with another
\* context for which the first rule holds, is still at the first rule.
C13_Witness ==
    /\ Built
    /\ Len(Rules) = 2
    /\ threads[1].pc = "done"
    /\ threads[1].ret = Some(Rules[2].result)
    /\ threads[2].pc = "running"
    /\ threads[2].i = 1
    /\ threads[2].params # threads[1].params
    /\ Holds(Rules[1].condition, threads[2].params)

\* The nodes of a condition tree in depth-first order, parent before
\* children, children left to right.
RECURSIVE PreOrder(_)

RECURSIVE PreOrderEach(_)
PreOrderEach(cs) ==
    IF cs = <<>> THEN <<>> ELSE PreOrder(Head(cs)) \o PreOrderEach(Tail(cs))

PreOrder(c) == <<c>> \o PreOrderEach(Children(c))

\* The first defective node of a tree in that order, and the defect reported
\* for a node (a leaf's field is looked at before its regex).
FirstDefective(c) ==
    LET ns == PreOrder(c)
        k  == CHOOSE k \in 1..Len(ns) :
                  /\ NodeDefects(ns[k]) # {}
                  /\ \A h \in 1..(k - 1) : NodeDefects(ns[h]) = {}
    IN  ns[k]

FirstDefect(n) ==
    IF "Field name cannot be empty" \in NodeDefects(n)
    THEN "Field name cannot be empty"
    ELSE CHOOSE d \in NodeDefects(n) : TRUE

DefectiveRules == {i \in 1..Len(Decoded.rules) : RuleDefects(i) # {}}

\* C14 (first violation only, with rule index): when a decoded rule set has
\* violations, validation returns one error: the ValidationError for the first
\* defective node of the first defective rule, rules taken in document order
\* and nodes depth-first, parent before children, left to right; it carries
\* the 0-based index of the enclosing top-level rule, and no later rule's
\* violation is reported.
C14_FirstViolationOnly ==
    (Validated /\ DefectiveRules # {}) =>
        LET i == CHOOSE i \in DefectiveRules : \A j \in DefectiveRules : i <= j
            n == FirstDefective(Decoded.rules[i].condition)
        IN  call.ret = ValidationError(FirstDefect(n), i - 1)

\* Rule 0 has a bad regex below an "and", rule 1 an empty field; the error
\* is the nested one, with index 0.
C14_Witness ==
    /\ Validated
    /\ Len(Decoded.rules) = 2
    /\ Decoded.rules[1].condition.kind = "And"
    /\ RuleDefects(1) = {"Invalid regex"}
    /\ RuleDefects(2) = {"Field name cannot be empty"}
    /\ call.ret = ValidationError("Invalid regex", 0)

\* C15 (no side effects): after any sequence of evaluate calls, whether they
\* matched a rule, returned the fallback or returned none, the evaluator's
\* rule set (rules, order, conditions, results, fallback) is the one it was
\* constructed with, the context of the last call is one the caller passed,
\* and the result returned is the one the constructed rule set gives.
C15_NoSideEffects ==
    Built =>
        /\ from_str(json).ok
        /\ evaluator = [rules |-> Decoded]
        /\ call.fn = "evaluate" =>
               /\ call.params \in Contexts
               /\ call.ret = evaluate([rules |-> Decoded], call.params)
        /\ memo.noted => memo.ret = evaluate([rules |-> Decoded], memo.params)

\* A call that matched the first of two rules was noted, and a later call
\* with another context fell through to the fallback.
C15_Witness ==
    /\ Built
    /\ Len(Rules) = 2
    /\ memo.noted
    /\ memo.ret = Some(Rules[1].result)
    /\ call.fn = "evaluate"
    /\ call.params # memo.params
    /\ Matching(call.params) = {}
    /\ call.ret = Decoded.fallback
    /\ Decoded.fallback.some

StringOperators == {"Equals", "Contains", "Prefix", "Suffix"}

\* What each string operator stands for, with haystack v and needle w: the
\* same characters one by one; w between some cut points of v; w the first
\* k characters of v; w the last k characters of v.
StringComparison(op, v, w) ==
    CASE op = "Equals" ->
           Len(v) = Len(w) /\ \A i \in 1..Len(v) : v[i] = w[i]
      [] op = "Contains" ->
           \E i \in 0..Len(v) : \E j \in i..Len(v) :
               /\ Len(w) = j - i
               /\ \A k \in 1..Len(w) : w[k] = v[i + k]
      [] op = "Prefix" ->
           \E k \in 0..Len(v) :
               Len(w) = k /\ \A i \in 1..k : w[i] = v[i]
      [] op = "Suffix" ->
           \E k \in 0..Len(v) :
               Len(w) = k /\ \A i \in 1..k : w[i] = v[Len(v) - k + i]

\* C16 (string operator semantics): for a leaf with a string operator whose
\* field is present in the context with value v, and whose literal is w, the
\* rule matches iff v and w are identical (Equals), w is a contiguous part of
\* v (Contains), v starts with w (Prefix), v ends with w (Suffix), character
\* by character, v the haystack and w the needle; otherwise the fallback is
\* returned.
C16_StringOperators ==
    (Evaluated /\ Leaf.op \in StringOperators
               /\ Leaf.field \in DOMAIN call.params)
        => /\ LeafMatched <=>
                  StringComparison(Leaf.op, call.params[Leaf.field], Leaf.value)
           /\ ~LeafMatched => LeafFellThrough

\* The context value starts with the shorter literal, and the rule matched.
C16_Witness ==
    /\ Evaluated
    /\ Leaf.op = "Prefix"
    /\ Leaf.field \in DOMAIN call.params
    /\ Leaf.value # <<>>
    /\ Len(Leaf.value) < Len(call.params[Leaf.field])
    /\ LeafMatched

\* The operators that are true of every field value when the literal is empty.
VacuousOnEmpty == {"Contains", "Prefix", "Suffix"}

\* C17 (an empty literal passes validation and shadows later rules):
\* construction accepts a leaf whatever its literal, the empty one included,
\* unless the operator is regex and the literal does not compile; and a first
\* rule that is a contains, prefix or suffix leaf with the empty literal
\* matches in every context that has the field, whatever its value, so that
\* its result is returned also where the second rule holds.
C17_EmptyLiteralShadows ==
    /\ call.fn = "from_json" =>
           LET leaf == Decoded.rules[1].condition
           IN  call.ret.ok <=> ~(leaf.op = "Regex" /\ ~Regex_new(leaf.value))
    /\ (Evaluated /\ Leaf.value = <<>> /\ Leaf.op \in VacuousOnEmpty
                  /\ Leaf.field \in DOMAIN call.params)
           => /\ call.ret = Some(Rules[1].result)
              /\ call.ret # Some(Rules[2].result)

\* The second rule holds for the context, the field of the first has a
\* non-empty value, and the first rule's result came back.
C17_Witness ==
    /\ Evaluated
    /\ Leaf.value = <<>>
    /\ Leaf.op = "Suffix"
    /\ Leaf.field \in DOMAIN call.params
    /\ call.params[Leaf.field] # <<>>
    /\ Holds(Rules[2].condition, call.params)
    /\ call.ret = Some(Rules[1].result)

====
